---- MODULE Spec2Model ----
(***************************************************************************)
(* Ledger and account-balance bookkeeping of PersonalFinanceApp            *)
(* (src/Tabs_Gemini_MVP_1.js).                                             *)
(*                                                                         *)
(* Money is kept in integer cents (1234.56 is 123456), so sums are exact.  *)
(* A description is a sequence of one-character strings, so toLowerCase    *)
(* and includes are computed character by character.                       *)
(* React re-renders after every handled event, so the `transactions`      *)
(* array closed over by deleteTransaction and updateTransaction is the     *)
(* ledger as it was when the handler was invoked; the handlers take that   *)
(* captured array as their first parameter.                                *)
(***************************************************************************)
EXTENDS Integers, Sequences, FiniteSets, TLC

VARIABLES transactions, accounts, nextId, last, ui, localStorage, effect

vars == <<transactions, accounts, nextId, last, ui, localStorage, effect>>

(***************************************************************************)
(* Bounds                                                                  *)
(***************************************************************************)
\* ids handed out by crypto.randomUUID() during one run
MaxId == 2

(***************************************************************************)
(* JavaScript numbers.  A finite number is its value in cents; three       *)
(* reserved codes, far outside the amounts that occur, stand for NaN,      *)
(* Infinity and -Infinity.                                                 *)
(***************************************************************************)
NaN == 2000000001
PosInfinity == 2000000000
NegInfinity == -2000000000

\* the global isNaN, on a number
isNaN(x) == x = NaN

\* a + b on numbers
Plus(a, b) ==
    IF a = NaN \/ b = NaN THEN NaN
    ELSE IF a = PosInfinity THEN (IF b = NegInfinity THEN NaN ELSE PosInfinity)
    ELSE IF a = NegInfinity THEN (IF b = PosInfinity THEN NaN ELSE NegInfinity)
    ELSE IF b = PosInfinity \/ b = NegInfinity THEN b
    ELSE a + b

\* a - b on numbers
Minus(a, b) ==
    Plus(a, IF b = NaN THEN NaN
            ELSE IF b = PosInfinity THEN NegInfinity
            ELSE IF b = NegInfinity THEN PosInfinity
            ELSE 0 - b)

(***************************************************************************)
(* Generic helpers: array methods and object spread                        *)
(***************************************************************************)
\* { ...a, ...b }: every key of b overrides the same key of a
Spread(a, b) ==
    [f \in DOMAIN a \cup DOMAIN b |-> IF f \in DOMAIN b THEN b[f] ELSE a[f]]

\* Array.prototype.filter with the predicate "element.id # id"
RECURSIVE FilterOutId(_, _)
FilterOutId(s, id) ==
    IF s = <<>> THEN <<>>
    ELSE IF Head(s).id # id THEN <<Head(s)>> \o FilterOutId(Tail(s), id)
         ELSE FilterOutId(Tail(s), id)

\* Array.prototype.find(t => t.id === id): does it find something
HasId(s, id) == \E i \in 1..Len(s) : s[i].id = id

\* Array.prototype.find(t => t.id === id): the first element found
FindById(s, id) == s[CHOOSE i \in 1..Len(s) : s[i].id = id /\ \A j \in 1..(i-1) : s[j].id # id]

\* newTransactions.reduce((sum, t) => sum + t.amount, 0)
RECURSIVE SumAmounts(_)
SumAmounts(s) == IF s = <<>> THEN 0 ELSE Plus(Head(s).amount, SumAmounts(Tail(s)))

(***************************************************************************)
(* categorizeTransaction                                                   *)
(***************************************************************************)
UpperChars == <<"A","B","C","D","E","F","G","H","I","J","K","L","M",
                "N","O","P","Q","R","S","T","U","V","W","X","Y","Z">>
LowerChars == <<"a","b","c","d","e","f","g","h","i","j","k","l","m",
                "n","o","p","q","r","s","t","u","v","w","x","y","z">>

\* String.prototype.toLowerCase
toLowerCase(s) ==
    [i \in 1..Len(s) |->
        IF \E k \in 1..Len(UpperChars) : UpperChars[k] = s[i]
        THEN LowerChars[CHOOSE k \in 1..Len(UpperChars) : UpperChars[k] = s[i]]
        ELSE s[i]]

\* String.prototype.includes
includes(s, sub) ==
    \E i \in 0..(Len(s) - Len(sub)) : SubSeq(s, i + 1, i + Len(sub)) = sub

KwGrocery     == <<"g","r","o","c","e","r","y">>
KwRestaurant  == <<"r","e","s","t","a","u","r","a","n","t">>
KwRent        == <<"r","e","n","t">>
KwMortgage    == <<"m","o","r","t","g","a","g","e">>
KwFuel        == <<"f","u","e","l">>
KwGas         == <<"g","a","s">>
KwElectricity == <<"e","l","e","c","t","r","i","c","i","t","y">>
KwWater       == <<"w","a","t","e","r">>
KwAmazon      == <<"a","m","a","z","o","n">>
KwEbay        == <<"e","b","a","y">>
KwSalary      == <<"s","a","l","a","r","y">>
KwPaycheck    == <<"p","a","y","c","h","e","c","k">>
KwNetflix     == <<"n","e","t","f","l","i","x">>
KwHulu        == <<"h","u","l","u">>

\* variant: the Entertainment rule is tested first
categorizeTransaction_EntertainmentFirst(description) ==
    LET d == toLowerCase(description) IN
    IF includes(d, KwNetflix) \/ includes(d, KwHulu) THEN "Entertainment"
    ELSE IF includes(d, KwGrocery) THEN "Food & Dining"
    ELSE IF includes(d, KwRestaurant) THEN "Food & Dining"
    ELSE IF includes(d, KwRent) THEN "Housing"
    ELSE IF includes(d, KwMortgage) THEN "Housing"
    ELSE IF includes(d, KwFuel) \/ includes(d, KwGas) THEN "Transportation"
    ELSE IF includes(d, KwElectricity) \/ includes(d, KwWater) THEN "Utilities"
    ELSE IF includes(d, KwAmazon) \/ includes(d, KwEbay) THEN "Shopping"
    ELSE IF includes(d, KwSalary) \/ includes(d, KwPaycheck) THEN "Income"
    ELSE "Other"

categorizeTransaction(description) ==
    LET d == toLowerCase(description) IN
    IF includes(d, KwGrocery) THEN "Food & Dining"
    ELSE IF includes(d, KwRestaurant) THEN "Food & Dining"
    ELSE IF includes(d, KwRent) THEN "Housing"
    ELSE IF includes(d, KwMortgage) THEN "Housing"
    ELSE IF includes(d, KwFuel) \/ includes(d, KwGas) THEN "Transportation"
    ELSE IF includes(d, KwElectricity) \/ includes(d, KwWater) THEN "Utilities"
    ELSE IF includes(d, KwAmazon) \/ includes(d, KwEbay) THEN "Shopping"
    ELSE IF includes(d, KwSalary) \/ includes(d, KwPaycheck) THEN "Income"
    ELSE IF includes(d, KwNetflix) \/ includes(d, KwHulu) THEN "Entertainment"
    ELSE "Other"

(***************************************************************************)
(* The four ledger operations of PersonalFinanceApp.  Each yields the      *)
(* state left by its setTransactions and setAccounts updaters.             *)
(***************************************************************************)
\* variant: the balance is set to the amount instead of increased by it
addTransaction_Assigns(txs, accts, uuid, transaction) ==
    LET newTransaction == Spread([id |-> uuid], transaction) IN
    [transactions |-> Append(txs, newTransaction),
     accounts |->
        [i \in 1..Len(accts) |->
            IF accts[i].id = newTransaction.account
            THEN [accts[i] EXCEPT !.balance = newTransaction.amount]
            ELSE accts[i]]]

\* variant: a transaction naming an unknown account is not appended
addTransaction_RejectsUnknown(txs, accts, uuid, transaction) ==
    LET newTransaction == Spread([id |-> uuid], transaction) IN
    [transactions |->
        IF \E i \in 1..Len(accts) : accts[i].id = newTransaction.account
        THEN Append(txs, newTransaction) ELSE txs,
     accounts |->
        [i \in 1..Len(accts) |->
            IF accts[i].id = newTransaction.account
            THEN [accts[i] EXCEPT !.balance = Plus(@, newTransaction.amount)]
            ELSE accts[i]]]

addTransaction(txs, accts, uuid, transaction) ==
    LET newTransaction == Spread([id |-> uuid], transaction) IN
    [transactions |-> Append(txs, newTransaction),
     accounts |->
        [i \in 1..Len(accts) |->
            IF accts[i].id = newTransaction.account
            THEN [accts[i] EXCEPT !.balance = Plus(@, newTransaction.amount)]
            ELSE accts[i]]]

\* variant: the batch is put before the entries of the ledger
importTransactions_Prepends(txs, accts, uuid, newTransactions, accountId) ==
    LET transactionsWithIds ==
            [k \in 1..Len(newTransactions) |->
                Spread(Spread([id |-> uuid + k - 1], newTransactions[k]),
                       [category |-> categorizeTransaction(newTransactions[k].description),
                        account |-> accountId])]
    IN
    [transactions |-> transactionsWithIds \o txs,
     accounts |->
        [i \in 1..Len(accts) |->
            IF accts[i].id = accountId
            THEN [accts[i] EXCEPT !.balance = Plus(@, SumAmounts(newTransactions))]
            ELSE accts[i]]]

\* variant: the aggregate credit goes to every account
importTransactions_CreditsAll(txs, accts, uuid, newTransactions, accountId) ==
    LET transactionsWithIds ==
            [k \in 1..Len(newTransactions) |->
                Spread(Spread([id |-> uuid + k - 1], newTransactions[k]),
                       [category |-> categorizeTransaction(newTransactions[k].description),
                        account |-> accountId])]
    IN
    [transactions |-> txs \o transactionsWithIds,
     accounts |->
        [i \in 1..Len(accts) |->
            [accts[i] EXCEPT !.balance = Plus(@, SumAmounts(newTransactions))]]]

\* variant: the record is spread last, so its own category and account win
importTransactions_RecordWins(txs, accts, uuid, newTransactions, accountId) ==
    LET transactionsWithIds ==
            [k \in 1..Len(newTransactions) |->
                Spread(Spread([id |-> uuid + k - 1],
                              [category |-> categorizeTransaction(newTransactions[k].description),
                               account |-> accountId]),
                       newTransactions[k])]
    IN
    [transactions |-> txs \o transactionsWithIds,
     accounts |->
        [i \in 1..Len(accts) |->
            IF accts[i].id = accountId
            THEN [accts[i] EXCEPT !.balance = Plus(@, SumAmounts(newTransactions))]
            ELSE accts[i]]]

\* uuid is the id given to the first record; the k-th record gets uuid + k - 1
importTransactions(txs, accts, uuid, newTransactions, accountId) ==
    LET transactionsWithIds ==
            [k \in 1..Len(newTransactions) |->
                Spread(Spread([id |-> uuid + k - 1], newTransactions[k]),
                       [category |-> categorizeTransaction(newTransactions[k].description),
                        account |-> accountId])]
    IN
    [transactions |-> txs \o transactionsWithIds,
     accounts |->
        [i \in 1..Len(accts) |->
            IF accts[i].id = accountId
            THEN [accts[i] EXCEPT !.balance = Plus(@, SumAmounts(newTransactions))]
            ELSE accts[i]]]

\* variant: the amount is added to the balance instead of subtracted
deleteTransaction_Credits(captured, txs, accts, id) ==
    IF ~HasId(captured, id)
    THEN [transactions |-> txs, accounts |-> accts]
    ELSE LET transactionToDelete == FindById(captured, id) IN
         [transactions |-> FilterOutId(txs, id),
          accounts |->
             [i \in 1..Len(accts) |->
                 IF accts[i].id = transactionToDelete.account
                 THEN [accts[i] EXCEPT !.balance = Plus(@, transactionToDelete.amount)]
                 ELSE accts[i]]]

\* variant: the transaction is removed and no balance is touched
deleteTransaction_NoDebit(captured, txs, accts, id) ==
    IF ~HasId(captured, id)
    THEN [transactions |-> txs, accounts |-> accts]
    ELSE [transactions |-> FilterOutId(txs, id), accounts |-> accts]

\* variant: removal by splice(findIndex(...), 1) without the early return, which
\* removes the last entry when the id is not found
deleteTransaction_DropsLast(captured, txs, accts, id) ==
    IF ~HasId(captured, id)
    THEN [transactions |-> SubSeq(txs, 1, Len(txs) - 1), accounts |-> accts]
    ELSE LET transactionToDelete == FindById(captured, id) IN
         [transactions |-> FilterOutId(txs, id),
          accounts |->
             [i \in 1..Len(accts) |->
                 IF accts[i].id = transactionToDelete.account
                 THEN [accts[i] EXCEPT !.balance = Minus(@, transactionToDelete.amount)]
                 ELSE accts[i]]]

\* captured: the `transactions` array of the render that created the callback
deleteTransaction(captured, txs, accts, id) ==
    IF ~HasId(captured, id)
    THEN [transactions |-> txs, accounts |-> accts]
    ELSE LET transactionToDelete == FindById(captured, id) IN
         [transactions |-> FilterOutId(txs, id),
          accounts |->
             [i \in 1..Len(accts) |->
                 IF accts[i].id = transactionToDelete.account
                 THEN [accts[i] EXCEPT !.balance = Minus(@, transactionToDelete.amount)]
                 ELSE accts[i]]]

\* variant: the updated transaction is re-inserted at the end of the ledger
updateTransaction_MovesToEnd(captured, txs, accts, id, updates) ==
    [transactions |->
        IF HasId(txs, id)
        THEN Append(FilterOutId(txs, id), Spread(FindById(txs, id), updates))
        ELSE txs,
     accounts |-> accts]

\* variant: the id test is missing, so every transaction takes the updates
updateTransaction_UpdatesAll(captured, txs, accts, id, updates) ==
    [transactions |-> [i \in 1..Len(txs) |-> Spread(txs[i], updates)],
     accounts |-> accts]

\* Both originalTransaction and updatedTransaction are looked up in the
\* captured array, which does not contain the update being applied.
updateTransaction(captured, txs, accts, id, updates) ==
    [transactions |->
        [i \in 1..Len(txs) |->
            IF txs[i].id = id THEN Spread(txs[i], updates) ELSE txs[i]],
     accounts |->
        [i \in 1..Len(accts) |->
            IF ~HasId(captured, id) THEN accts[i]
            ELSE LET originalTransaction == FindById(captured, id)
                     updatedTransaction  == FindById(captured, id)
                 IN IF accts[i].id = originalTransaction.account
                    THEN [accts[i] EXCEPT !.balance =
                            Plus(@, Minus(updatedTransaction.amount,
                                          originalTransaction.amount))]
                    ELSE IF accts[i].id = updatedTransaction.account
                    THEN [accts[i] EXCEPT !.balance =
                            Plus(@, Minus(updatedTransaction.amount,
                                          originalTransaction.amount))]
                    ELSE accts[i]]]

(***************************************************************************)
(* Persistence.  localStorage holds, under the keys transactions and       *)
(* accounts, what JSON.parse gives back of what JSON.stringify wrote: a    *)
(* number that is NaN or infinite is written as null.  The effect that     *)
(* writes the two keys runs after every render in which transactions or    *)
(* accounts changed; effect is its position.                               *)
(***************************************************************************)
\* null where a number was written
NullNumber == 2000000002

\* JSON.parse(JSON.stringify(x)) of a number
StoredNumber(x) == IF x \in {NaN, PosInfinity, NegInfinity} THEN NullNumber ELSE x

\* JSON.parse(JSON.stringify(txs)) of the ledger
StoredTransactions(txs) ==
    [i \in 1..Len(txs) |-> [txs[i] EXCEPT !.amount = StoredNumber(@)]]

\* JSON.parse(JSON.stringify(accts)) of the accounts
StoredAccounts(accts) ==
    [i \in 1..Len(accts) |-> [accts[i] EXCEPT !.balance = StoredNumber(@)]]

\* the effect run to its end, in a step that cannot be interrupted
PersistEffect ==
    /\ localStorage' = [transactions |-> StoredTransactions(transactions'),
                        accounts |-> StoredAccounts(accounts')]
    /\ effect' = "idle"

(***************************************************************************)
(* Initial state                                                           *)
(***************************************************************************)
\* the three default accounts (name and type are never read by the ledger)
SeedAccounts ==
    << [id |-> "checking1", balance |-> 123456],
       [id |-> "savings1",  balance |-> 567890],
       [id |-> "credit1",   balance |-> -50000] >>

\* no transaction: what a find that matches nothing is recorded as
NoTx == [id |-> 0]

\* Record of the event handled last: the operation and its arguments; for a
\* delete or update the transaction it found in the ledger; for a delete the
\* balances before it.  An add that directly follows the delete of a
\* transaction with the same fields keeps that delete's found and preAcc.
NoOp == [op |-> "init", id |-> 0, arg |-> <<>>, target |-> "",
         found |-> NoTx, preAcc |-> <<>>]

\* null, for a state that holds a string (an error message, a file name) or null
Null == "null"

\* State of the three form components after construction: the add form of
\* TransactionInputSheet, the import form of TransactionImport with the file
\* read it has started (reading), and the row editor of TransactionList.
\* The fields of the add form and of the import form are written by their
\* onChange handlers alone; they are the input of a click and are not kept
\* between clicks, except that cleared tells whether the fields of the add
\* form hold their initial value ''.  A file is held by its name; editingId
\* 0 is null.
InitialUi ==
    [add |-> [cleared |-> TRUE, isSubmitting |-> FALSE, error |-> Null],
     imp |-> [isImporting |-> FALSE, error |-> Null],
     reading |-> [active |-> FALSE, file |-> Null, fileType |-> "csv",
                  selectedAccount |-> ""],
     edit |-> [editingId |-> 0, editedTransaction |-> <<>>]]

Init ==
    /\ transactions = <<>>
    /\ accounts = SeedAccounts
    /\ nextId = 1
    /\ last = NoOp
    /\ ui = InitialUi
    /\ localStorage = [transactions |-> StoredTransactions(transactions),
                       accounts |-> StoredAccounts(accounts)]
    /\ effect = "idle"

(***************************************************************************)
(* Inputs                                                                  *)
(***************************************************************************)
DescCoffee   == <<"C","o","f","f","e","e">>
DescPaycheck == <<"P","a","y","c","h","e","c","k">>
DescGrocery  == <<"G","R","O","C","E","R","Y"," ","r","u","n">>
DescRent     == <<"R","e","n","t">>

\* an account id that no account carries
GhostAccount == "ghost1"

\* arguments of addTransaction
AddInputs ==
    { [date |-> "2024-01-05", description |-> DescCoffee, amount |-> -450,
       category |-> "Food & Dining", account |-> "checking1"],
      [date |-> "2024-01-05", description |-> DescCoffee, amount |-> 700,
       category |-> "Food & Dining", account |-> "checking1"],
      [date |-> "2024-01-31", description |-> DescPaycheck, amount |-> 100000,
       category |-> "Income", account |-> "savings1"],
      [date |-> "2024-02-01", description |-> DescCoffee, amount |-> -450,
       category |-> "Other", account |-> GhostAccount] }

\* record batches handed to importTransactions; the second record of the
\* two-record batch carries a category and an account of its own
ImportBatches ==
    { <<>>,
      << [date |-> "2024-02-05", description |-> DescPaycheck, amount |-> 2500] >>,
      << [date |-> "2024-02-03", description |-> DescGrocery, amount |-> -1200],
         [date |-> "2024-02-04", description |-> DescRent, amount |-> -90000,
          category |-> "Travel", account |-> "credit1"] >> }

ImportTargets == {"checking1", GhostAccount}

\* `updates` arguments of updateTransaction
UpdateInputs ==
    { [amount |-> 700],
      [amount |-> 700, account |-> "savings1"] }

\* ids a delete or update may name; an id not yet handed out, or the id of a
\* deleted transaction, is not in the ledger
IdInputs == 1..MaxId

(***************************************************************************)
(* Actions: one handled event each                                         *)
(***************************************************************************)
Found(id) == IF HasId(transactions, id) THEN FindById(transactions, id) ELSE NoTx

\* the fields of a transaction other than its id
WithoutId(t) == [f \in (DOMAIN t) \ {"id"} |-> t[f]]

\* the event handled last deleted a transaction whose fields are those of t
ReAdds(t) == last.op = "delete" /\ last.found # NoTx /\ WithoutId(last.found) = t

Add ==
    /\ nextId <= MaxId
    /\ \E t \in AddInputs :
        LET r == addTransaction(transactions, accounts, nextId, t) IN
        /\ transactions' = r.transactions
        /\ accounts' = r.accounts
        /\ nextId' = nextId + 1
        /\ last' = [op |-> "add", id |-> nextId, arg |-> t, target |-> t.account,
                    found |-> IF ReAdds(t) THEN last.found ELSE NoTx,
                    preAcc |-> IF ReAdds(t) THEN last.preAcc ELSE <<>>]
        /\ ui' = ui
        /\ PersistEffect

Import ==
    \E b \in ImportBatches, a \in ImportTargets :
        /\ nextId + Len(b) - 1 <= MaxId
        /\ LET r == importTransactions(transactions, accounts, nextId, b, a) IN
            /\ transactions' = r.transactions
            /\ accounts' = r.accounts
            /\ nextId' = nextId + Len(b)
            /\ last' = [op |-> "import", id |-> nextId, arg |-> b, target |-> a,
                        found |-> NoTx, preAcc |-> <<>>]
            /\ ui' = ui
            /\ PersistEffect

Delete ==
    \E id \in IdInputs :
        LET r == deleteTransaction(transactions, transactions, accounts, id) IN
        /\ transactions' = r.transactions
        /\ accounts' = r.accounts
        /\ nextId' = nextId
        /\ last' = [op |-> "delete", id |-> id, arg |-> <<>>, target |-> "",
                    found |-> Found(id), preAcc |-> accounts]
        /\ ui' = ui
        /\ PersistEffect

Update ==
    \E id \in IdInputs, u \in UpdateInputs :
        LET r == updateTransaction(transactions, transactions, accounts, id, u) IN
        /\ transactions' = r.transactions
        /\ accounts' = r.accounts
        /\ nextId' = nextId
        /\ last' = [op |-> "update", id |-> id, arg |-> u, target |-> "",
                    found |-> Found(id), preAcc |-> <<>>]
        /\ ui' = ui
        /\ PersistEffect

Next == Add \/ Import \/ Delete \/ Update

Spec == Init /\ [][Next]_vars

(***************************************************************************)
(* Vocabulary of the properties                                            *)
(***************************************************************************)
\* ids of the known accounts
KnownAccounts == {accounts[i].id : i \in 1..Len(accounts)}

\* sum of the amounts of the transactions of txs attributed to account a
RECURSIVE Attributed(_, _)
Attributed(txs, a) ==
    IF txs = <<>> THEN 0
    ELSE (IF Head(txs).account = a THEN Head(txs).amount ELSE 0)
         + Attributed(Tail(txs), a)

\* sum of the amounts of a batch of records
RECURSIVE BatchSum(_)
BatchSum(b) == IF Len(b) = 0 THEN 0 ELSE b[Len(b)].amount + BatchSum(SubSeq(b, 1, Len(b) - 1))

\* this step changes the balance of account a by d and no other balance,
\* and changes nothing else about the accounts
OnlyCredits(a, d) ==
    /\ Len(accounts') = Len(accounts)
    /\ \A i \in 1..Len(accounts) :
        /\ accounts'[i].id = accounts[i].id
        /\ accounts'[i].balance =
              accounts[i].balance + (IF accounts[i].id = a THEN d ELSE 0)

\* txs without its i-th entry
RemoveAt(txs, i) == SubSeq(txs, 1, i - 1) \o SubSeq(txs, i + 1, Len(txs))

(***************************************************************************)
(* C1 (fails on the code).  After every operation, each account's balance  *)
(* equals its seed balance plus the sum of the amounts of the              *)
(* transactions currently attributed to it.                                *)
(***************************************************************************)
C1_Reconciled ==
    \A i \in 1..Len(accounts) :
        accounts[i].balance =
            SeedAccounts[i].balance + Attributed(transactions, accounts[i].id)

(***************************************************************************)
(* C2 (fails on the code).  An update of an existing transaction that      *)
(* changes its amount and leaves its account unchanged changes that        *)
(* account's balance by new_amount - old_amount and no other balance.      *)
(***************************************************************************)
C2_UpdateAmountDelta ==
    [][ (/\ last'.op = "update"
         /\ HasId(transactions, last'.id)
         /\ "amount" \in DOMAIN last'.arg
         /\ FindById(transactions', last'.id).account
              = FindById(transactions, last'.id).account)
        => OnlyCredits(FindById(transactions, last'.id).account,
                       FindById(transactions', last'.id).amount
                         - FindById(transactions, last'.id).amount) ]_vars

(***************************************************************************)
(* C3 (fails on the code).  An update that moves an existing transaction   *)
(* from account A to a different existing account B decreases A's balance  *)
(* by the old amount, increases B's by the new amount, and changes no      *)
(* other balance.                                                          *)
(***************************************************************************)
C3_UpdateMove ==
    [][ (/\ last'.op = "update"
         /\ HasId(transactions, last'.id)
         /\ FindById(transactions', last'.id).account
              # FindById(transactions, last'.id).account
         /\ FindById(transactions', last'.id).account \in KnownAccounts)
        => LET old == FindById(transactions, last'.id)
               new == FindById(transactions', last'.id)
           IN \A i \in 1..Len(accounts) :
                accounts'[i].balance =
                    accounts[i].balance
                    - (IF accounts[i].id = old.account THEN old.amount ELSE 0)
                    + (IF accounts[i].id = new.account THEN new.amount ELSE 0) ]_vars

(***************************************************************************)
(* C4.  add(t) appends exactly one transaction carrying t's fields and an  *)
(* id not already in the ledger, increases the balance of t.account by     *)
(* t.amount, and leaves every other balance and every existing entry       *)
(* unchanged.                                                              *)
(***************************************************************************)
C4_Add ==
    [][ last'.op = "add"
        => LET t == last'.arg
               n == Len(transactions)
           IN /\ Len(transactions') = n + 1
              /\ SubSeq(transactions', 1, n) = transactions
              /\ WithoutId(transactions'[n + 1]) = t
              /\ ~HasId(transactions, transactions'[n + 1].id)
              /\ OnlyCredits(t.account, t.amount) ]_vars

C4_Witness ==
    /\ last.op = "add"
    /\ last.target \in KnownAccounts
    /\ Len(transactions) > 1

(***************************************************************************)
(* C5.  delete(id) of a transaction in the ledger removes exactly that     *)
(* transaction and decreases by its current amount the balance of the      *)
(* account it was attributed to just before the delete, also when the      *)
(* transaction was edited before; no other balance changes.                *)
(***************************************************************************)
C5_Delete ==
    [][ (last'.op = "delete" /\ HasId(transactions, last'.id))
        => \E i \in 1..Len(transactions) :
              /\ transactions[i].id = last'.id
              /\ transactions' = RemoveAt(transactions, i)
              /\ OnlyCredits(transactions[i].account, 0 - transactions[i].amount) ]_vars

\* a delete of a transaction that was added to checking1 and then edited to
\* amount 700 in savings1 (no add or import puts coffee into savings1)
C5_Witness ==
    /\ last.op = "delete"
    /\ last.found # NoTx
    /\ last.found.description = DescCoffee
    /\ last.found.account = "savings1"
    /\ last.found.amount = 700

(***************************************************************************)
(* C6.  Importing a batch into an existing account A changes A's balance   *)
(* by the sum of the batch's amounts and no other balance; an empty batch  *)
(* changes no balance and adds no ledger entry.                            *)
(***************************************************************************)
C6_ImportCredit ==
    [][ (last'.op = "import" /\ last'.target \in KnownAccounts)
        => /\ OnlyCredits(last'.target, BatchSum(last'.arg))
           /\ (last'.arg = <<>> =>
                 (transactions' = transactions /\ accounts' = accounts)) ]_vars

C6_Witness ==
    /\ last.op = "import"
    /\ last.target \in KnownAccounts
    /\ Len(last.arg) = 2

(***************************************************************************)
(* C7.  bulkImport(records, target) appends one ledger entry per record,   *)
(* in batch order, each with a fresh id, the target as account and the     *)
(* Categorizer's label of the record's description as category, whatever   *)
(* account or category the record carries.                                 *)
(***************************************************************************)
C7_ImportEntries ==
    [][ last'.op = "import"
        => LET b == last'.arg
               n == Len(transactions)
           IN /\ Len(transactions') = n + Len(b)
              /\ SubSeq(transactions', 1, n) = transactions
              /\ \A k \in 1..Len(b) :
                    LET e == transactions'[n + k] IN
                    /\ DOMAIN e = {"id", "date", "description", "amount",
                                   "category", "account"}
                    /\ e.date = b[k].date
                    /\ e.description = b[k].description
                    /\ e.amount = b[k].amount
                    /\ e.account = last'.target
                    /\ e.category = categorizeTransaction(b[k].description)
                    /\ ~HasId(transactions, e.id)
                    /\ \A j \in 1..Len(b) : j # k => transactions'[n + j].id # e.id ]_vars

\* a two-record import whose second record carried a category and an account
C7_Witness ==
    /\ last.op = "import"
    /\ Len(last.arg) = 2
    /\ "category" \in DOMAIN last.arg[2]
    /\ last.arg[2].category # transactions[Len(transactions)].category
    /\ last.arg[2].account # last.target

C10_UnknownAccount ==
    [][ /\ (last'.op = "add" /\ last'.target \notin KnownAccounts)
            => (Len(transactions') = Len(transactions) + 1 /\ accounts' = accounts)
        /\ (last'.op = "import" /\ last'.target \notin KnownAccounts)
            => (/\ Len(transactions') = Len(transactions) + Len(last'.arg)
                /\ accounts' = accounts)
        /\ (/\ last'.op = "delete"
            /\ HasId(transactions, last'.id)
            /\ FindById(transactions, last'.id).account \notin KnownAccounts)
            => (/\ Len(transactions') = Len(transactions) - 1
                /\ ~HasId(transactions', last'.id)
                /\ accounts' = accounts) ]_vars

C10_Witness ==
    /\ last.op = "add"
    /\ last.target = GhostAccount
    /\ transactions[Len(transactions)].account = GhostAccount

(***************************************************************************)
(* C11.  The ledger keeps insertion order: add and bulkImport only append  *)
(* at the end, and after a delete or update the remaining entries,         *)
(* identified by id, are in the same relative order as before.             *)
(***************************************************************************)
IdsOf(txs) == [i \in 1..Len(txs) |-> txs[i].id]

\* the members of the sequence ids that are in the set S, in their order
RECURSIVE Keep(_, _)
Keep(ids, S) ==
    IF ids = <<>> THEN <<>>
    ELSE (IF Head(ids) \in S THEN <<Head(ids)>> ELSE <<>>) \o Keep(Tail(ids), S)

C12_UpdateFrame ==
    [][ (last'.op = "update" /\ HasId(transactions, last'.id))
        => /\ Len(transactions') = Len(transactions)
           /\ \A i \in 1..Len(transactions) :
                IF transactions[i].id = last'.id
                THEN /\ DOMAIN transactions'[i] = DOMAIN transactions[i]
                     /\ transactions'[i].id = transactions[i].id
                     /\ \A f \in DOMAIN transactions[i] :
                          transactions'[i][f] =
                              (IF f \in DOMAIN last'.arg
                               THEN last'.arg[f] ELSE transactions[i][f])
                ELSE transactions'[i] = transactions[i] ]_vars

\* an update naming only the amount, with a second transaction in the ledger
C12_Witness ==
    /\ last.op = "update"
    /\ last.found # NoTx
    /\ DOMAIN last.arg = {"amount"}
    /\ last.found.amount # last.arg.amount
    /\ Len(transactions) = 2

(***************************************************************************)
(* categorizeTransaction as a function of its argument: the description is *)
(* drawn at the start and one step applies the function to it.             *)
(***************************************************************************)
CatWords ==
    { <<"G","r","o","c","e","r","y">>,
      <<"R","E","S","T","A","U","R","A","N","T">>,
      <<"R","e","n","t">>,
      <<"m","o","r","t","g","a","g","e">>,
      <<"F","u","e","l">>,
      <<"G","A","S">>,
      <<"e","l","e","c","t","r","i","c","i","t","y">>,
      <<"W","a","t","e","r">>,
      <<"A","m","a","z","o","n">>,
      <<"e","B","a","y">>,
      <<"s","a","l","a","r","y">>,
      <<"P","a","y","c","h","e","c","k">>,
      <<"N","e","t","f","l","i","x">>,
      <<"H","U","L","U">>,
      <<"M","o","n","t","h","l","y">>,
      <<"x","y","z">> }

DescMonthlyNetflix == <<"M","o","n","t","h","l","y"," ","N","e","t","f","l","i","x"," ","s","u","b","s","c","r","i","p","t","i","o","n">>
DescGroceryRun     == <<"G","r","o","c","e","r","y"," ","r","u","n"," ","a","t"," ","M","a","r","k","e","t">>
DescUnknownVendor  == <<"U","n","k","n","o","w","n"," ","v","e","n","d","o","r"," ","x","y","z">>

\* two words separated by a blank, and the three descriptions above
CatInputs ==
    {w1 \o <<" ">> \o w2 : w1 \in CatWords, w2 \in CatWords}
        \cup {DescMonthlyNetflix, DescGroceryRun, DescUnknownVendor}

InitCat ==
    /\ transactions = <<>>
    /\ accounts = SeedAccounts
    /\ nextId = 1
    /\ ui = InitialUi
    /\ localStorage = [transactions |-> StoredTransactions(transactions),
                       accounts |-> StoredAccounts(accounts)]
    /\ effect = "idle"
    /\ \E d \in CatInputs : last = [op |-> "input", arg |-> d, result |-> ""]

Categorize ==
    /\ last.op = "input"
    /\ last' = [op |-> "categorize", arg |-> last.arg,
                result |-> categorizeTransaction(last.arg)]
    /\ UNCHANGED <<transactions, accounts, nextId, ui, localStorage, effect>>

NextCat == Categorize

SpecCat == InitCat /\ [][NextCat]_vars

(***************************************************************************)
(* C14.  The Categorizer returns the label of the first rule, in the order *)
(* Food & Dining (grocery, restaurant), Housing (rent, mortgage),          *)
(* Transportation (fuel, gas), Utilities (electricity, water), Shopping    *)
(* (amazon, ebay), Income (salary, paycheck), Entertainment (netflix,      *)
(* hulu), one of whose keywords occurs in the description as a substring,  *)
(* letter case ignored, and 'Other' when none does.  'Monthly Netflix      *)
(* subscription' gives Entertainment, 'Grocery run at Market' gives Food & *)
(* Dining, 'Unknown vendor xyz' gives Other.                               *)
(***************************************************************************)
CatRules ==
    << [label |-> "Food & Dining",
        keywords |-> {<<"g","r","o","c","e","r","y">>, <<"r","e","s","t","a","u","r","a","n","t">>}],
       [label |-> "Housing",
        keywords |-> {<<"r","e","n","t">>, <<"m","o","r","t","g","a","g","e">>}],
       [label |-> "Transportation",
        keywords |-> {<<"f","u","e","l">>, <<"g","a","s">>}],
       [label |-> "Utilities",
        keywords |-> {<<"e","l","e","c","t","r","i","c","i","t","y">>, <<"w","a","t","e","r">>}],
       [label |-> "Shopping",
        keywords |-> {<<"a","m","a","z","o","n">>, <<"e","b","a","y">>}],
       [label |-> "Income",
        keywords |-> {<<"s","a","l","a","r","y">>, <<"p","a","y","c","h","e","c","k">>}],
       [label |-> "Entertainment",
        keywords |-> {<<"n","e","t","f","l","i","x">>, <<"h","u","l","u">>}] >>

\* a and b are the same character or the two cases of one letter
SameLetter(a, b) ==
    a = b \/ \E k \in 1..Len(UpperChars) : {a, b} = {UpperChars[k], LowerChars[k]}

\* kw occurs in d as a substring, letter case ignored
Occurs(kw, d) ==
    \E o \in 0..(Len(d) - Len(kw)) : \A j \in 1..Len(kw) : SameLetter(d[o + j], kw[j])

RuleMatches(r, d) == \E kw \in CatRules[r].keywords : Occurs(kw, d)

ExpectedLabel(d) ==
    IF \E r \in 1..Len(CatRules) : RuleMatches(r, d)
    THEN CatRules[CHOOSE r \in 1..Len(CatRules) :
                    RuleMatches(r, d) /\ \A q \in 1..(r - 1) : ~RuleMatches(q, d)].label
    ELSE "Other"

C14_Categorizer ==
    last.op = "categorize"
        => /\ last.result = ExpectedLabel(last.arg)
           /\ (last.arg = DescMonthlyNetflix => last.result = "Entertainment")
           /\ (last.arg = DescGroceryRun => last.result = "Food & Dining")
           /\ (last.arg = DescUnknownVendor => last.result = "Other")

\* a description in which an Entertainment keyword precedes a Housing keyword
C14_Witness ==
    /\ last.op = "categorize"
    /\ RuleMatches(7, last.arg)
    /\ RuleMatches(2, last.arg)
    /\ last.result = "Housing"

(***************************************************************************)
(* Import decoders: parseCSV, parseYNAB and the string functions they use  *)
(***************************************************************************)
\* undefined, where a string is expected (a missing array element or property)
Undefined == <<"undefined">>

\* white space as String.prototype.trim and parseFloat strip it
IsWhiteSpace(c) == c \in {" ", "\n", "\r", "\t"}

RECURSIVE trimStart(_)
trimStart(s) ==
    IF s # <<>> /\ IsWhiteSpace(Head(s)) THEN trimStart(Tail(s)) ELSE s

RECURSIVE trimEnd(_)
trimEnd(s) ==
    IF s # <<>> /\ IsWhiteSpace(s[Len(s)]) THEN trimEnd(SubSeq(s, 1, Len(s) - 1)) ELSE s

\* String.prototype.trim
trim(s) == trimEnd(trimStart(s))

\* String.prototype.split with a one-character separator
RECURSIVE split(_, _)
split(s, sep) ==
    IF \E i \in 1..Len(s) : s[i] = sep
    THEN LET i == CHOOSE i \in 1..Len(s) : s[i] = sep /\ \A j \in 1..(i - 1) : s[j] # sep
         IN <<SubSeq(s, 1, i - 1)>> \o split(SubSeq(s, i + 1, Len(s)), sep)
    ELSE <<s>>

Digits == <<"0","1","2","3","4","5","6","7","8","9">>

IsDigit(c) == \E k \in 1..Len(Digits) : Digits[k] = c

DigitValue(c) == (CHOOSE k \in 1..Len(Digits) : Digits[k] = c) - 1

\* the longest prefix of s made of digits
RECURSIVE DigitPrefix(_)
DigitPrefix(s) ==
    IF s # <<>> /\ IsDigit(Head(s)) THEN <<Head(s)>> \o DigitPrefix(Tail(s)) ELSE <<>>

\* the value of a sequence of digits
RECURSIVE DigitsValue(_)
DigitsValue(ds) ==
    IF ds = <<>> THEN 0
    ELSE 10 * DigitsValue(SubSeq(ds, 1, Len(ds) - 1)) + DigitValue(ds[Len(ds)])

KwInfinity == <<"I","n","f","i","n","i","t","y">>

StartsWith(s, prefix) == Len(s) >= Len(prefix) /\ SubSeq(s, 1, Len(prefix)) = prefix

\* variant: a string that does not begin with a number gives 0
parseFloat_ZeroForNoNumber(str) ==
    LET s0 == trimStart(str)
        negative == s0 # <<>> /\ Head(s0) = "-"
        s1 == IF s0 # <<>> /\ Head(s0) \in {"-", "+"} THEN Tail(s0) ELSE s0
        int == DigitPrefix(s1)
        s2 == SubSeq(s1, Len(int) + 1, Len(s1))
        frac == IF s2 # <<>> /\ Head(s2) = "." THEN DigitPrefix(Tail(s2)) ELSE <<>>
        cents == DigitsValue(SubSeq(frac \o <<"0","0">>, 1, 2))
        magnitude == 100 * DigitsValue(int) + cents
    IN IF StartsWith(s1, KwInfinity)
       THEN (IF negative THEN NegInfinity ELSE PosInfinity)
       ELSE IF negative THEN 0 - magnitude ELSE magnitude

\* parseFloat of a string: leading white space is skipped, then the longest
\* prefix that is a decimal literal is read and whatever follows is ignored.
\* The result is in cents, so decimals after the second are dropped; an
\* exponent part is not read.
parseFloat(str) ==
    LET s0 == trimStart(str)
        negative == s0 # <<>> /\ Head(s0) = "-"
        s1 == IF s0 # <<>> /\ Head(s0) \in {"-", "+"} THEN Tail(s0) ELSE s0
        int == DigitPrefix(s1)
        s2 == SubSeq(s1, Len(int) + 1, Len(s1))
        frac == IF s2 # <<>> /\ Head(s2) = "." THEN DigitPrefix(Tail(s2)) ELSE <<>>
        cents == DigitsValue(SubSeq(frac \o <<"0","0">>, 1, 2))
        magnitude == 100 * DigitsValue(int) + cents
    IN IF StartsWith(s1, KwInfinity)
       THEN (IF negative THEN NegInfinity ELSE PosInfinity)
       ELSE IF int = <<>> /\ frac = <<>> THEN NaN
       ELSE IF negative THEN 0 - magnitude ELSE magnitude

KwDate        == <<"D","a","t","e">>
KwDescription == <<"D","e","s","c","r","i","p","t","i","o","n">>
KwAmount      == <<"A","m","o","u","n","t">>

\* obj[name] after headers.forEach((header, index) => obj[header] = values[index])
CsvField_ByPosition(headers, values, name) ==
    LET i == IF name = KwDate THEN 1 ELSE IF name = KwDescription THEN 2 ELSE 3
    IN IF i <= Len(values) THEN values[i] ELSE Undefined

CsvField(headers, values, name) ==
    IF \E i \in 1..Len(headers) : headers[i] = name
    THEN LET i == CHOOSE i \in 1..Len(headers) :
                    headers[i] = name /\ \A j \in (i + 1)..Len(headers) : headers[j] # name
         IN IF i <= Len(values) THEN values[i] ELSE Undefined
    ELSE Undefined

\* x || fallback, for x a string or undefined
OrElse(x, fallback) == IF x = Undefined \/ x = <<>> THEN fallback ELSE x

parseCSV(text) ==
    LET lines == split(trim(text), "\n")
        headers == [i \in 1..Len(split(lines[1], ",")) |-> trim(split(lines[1], ",")[i])]
    IN [k \in 1..(Len(lines) - 1) |->
          LET cells == split(lines[k + 1], ",")
              values == [i \in 1..Len(cells) |-> trim(cells[i])]
          IN [date |-> OrElse(CsvField(headers, values, KwDate), <<>>),
              description |-> OrElse(CsvField(headers, values, KwDescription), <<>>),
              amount |-> parseFloat(OrElse(CsvField(headers, values, KwAmount), <<"0">>))]]

(***************************************************************************)
(* parseYNAB.  Its argument is given by what JSON.parse does with the      *)
(* text: it throws (ok is FALSE) or returns a value.  A JSON value is a    *)
(* record of its type t and its content v: the items of an array, the      *)
(* properties of an object, the characters of a string, the cents of a     *)
(* number.                                                                 *)
(***************************************************************************)
JsUndefined == [t |-> "undefined", v |-> 0]

\* item[name] for a value that is neither null nor undefined
Prop(item, name) ==
    IF item.t = "object" /\ name \in DOMAIN item.v THEN item.v[name] ELSE JsUndefined

\* ToBoolean
Truthy(x) ==
    CASE x.t \in {"undefined", "null"} -> FALSE
      [] x.t = "boolean" -> x.v
      [] x.t = "number" -> x.v # 0 /\ x.v # NaN
      [] x.t = "string" -> x.v # <<>>
      [] OTHER -> TRUE

\* x || '' where the result is used as a string: a string is its characters,
\* any other truthy value is kept as it is
OrEmpty(x) == IF ~Truthy(x) THEN <<>> ELSE IF x.t = "string" THEN x.v ELSE x

\* parseFloat(x || '0'): parseFloat of a number gives the number back, of a
\* boolean or an object NaN (an array does not occur as Amount in the inputs)
ParseFloatOrZero(x) ==
    IF ~Truthy(x) THEN parseFloat(<<"0">>)
    ELSE IF x.t = "string" THEN parseFloat(x.v)
    ELSE IF x.t = "number" THEN x.v
    ELSE NaN

\* A null item makes item.Date throw a TypeError inside the try block.
parseYNAB(parsed) ==
    IF ~parsed.ok THEN <<>>
    ELSE IF parsed.value.t # "array" THEN <<>>
    ELSE LET data == parsed.value.v IN
         IF \E i \in 1..Len(data) : data[i].t = "null" THEN <<>>
         ELSE [i \in 1..Len(data) |->
                 [date |-> OrEmpty(Prop(data[i], "Date")),
                  description |-> OrEmpty(Prop(data[i], "Description")),
                  amount |-> ParseFloatOrZero(Prop(data[i], "Amount"))]]

(***************************************************************************)
(* parseCSV as a function of its argument: a table of a header and up to   *)
(* MaxRows rows is drawn at the start and written out as text, cells       *)
(* joined by commas and lines by line feeds, and one step applies parseCSV *)
(* to the text.  The header is any arrangement of up to three of the       *)
(* columns Date, Description, Amount and Memo; a row has a cell for every  *)
(* column or lacks the last one.                                           *)
(***************************************************************************)
MaxRows == 2

KwMemo == <<"M","e","m","o">>

Date0105 == <<"2","0","2","4","-","0","1","-","0","5">>
Date0210 == <<"2","0","2","4","-","0","2","-","1","0">>
CellCoffee == <<"C","o","f","f","e","e">>
CellRent == <<"R","e","n","t">>
CellMinus450 == <<"-","4",".","5","0">>
Cell1200 == <<"1","2","0","0">>
CellNote == <<"n","o","t","e">>

CsvColumns == {KwDate, KwDescription, KwAmount, KwMemo}

CsvCells(column) ==
    IF column = KwDate THEN {Date0105, Date0210}
    ELSE IF column = KwDescription THEN {CellCoffee, CellRent}
    ELSE IF column = KwAmount THEN {CellMinus450, Cell1200}
    ELSE {CellNote}

CsvHeaders ==
    {h \in UNION {[1..n -> CsvColumns] : n \in 1..3} :
        \A i, j \in 1..Len(h) : i # j => h[i] # h[j]}

CsvRows(h) ==
    LET full == {r \in [1..Len(h) -> UNION {CsvCells(c) : c \in CsvColumns}] :
                    \A i \in 1..Len(h) : r[i] \in CsvCells(h[i])}
    IN full \cup {SubSeq(r, 1, Len(h) - 1) : r \in {q \in full : Len(h) >= 2}}

CsvTables ==
    UNION {{[header |-> h, rows |-> rs] :
              rs \in UNION {[1..n -> CsvRows(h)] : n \in 0..MaxRows}} : h \in CsvHeaders}

RECURSIVE Join(_, _)
Join(parts, sep) ==
    IF parts = <<>> THEN <<>>
    ELSE IF Len(parts) = 1 THEN parts[1]
    ELSE parts[1] \o <<sep>> \o Join(Tail(parts), sep)

CsvText(table) ==
    Join(<<Join(table.header, ",")>> \o [k \in 1..Len(table.rows) |-> Join(table.rows[k], ",")],
         "\n")

InitCsv ==
    /\ transactions = <<>>
    /\ accounts = SeedAccounts
    /\ nextId = 1
    /\ ui = InitialUi
    /\ localStorage = [transactions |-> StoredTransactions(transactions),
                       accounts |-> StoredAccounts(accounts)]
    /\ effect = "idle"
    /\ \E table \in CsvTables :
          last = [op |-> "input", table |-> table, arg |-> CsvText(table), result |-> <<>>]

DecodeCsv ==
    /\ last.op = "input"
    /\ last' = [last EXCEPT !.op = "parseCSV", !.result = parseCSV(last.arg)]
    /\ UNCHANGED <<transactions, accounts, nextId, ui, localStorage, effect>>

NextCsv == DecodeCsv

SpecCsv == InitCsv /\ [][NextCsv]_vars

(***************************************************************************)
(* C15.  Decoding delimited text takes the first line as the header and    *)
(* gives one record per following line, whose date, description and amount *)
(* come from the columns named Date, Description and Amount wherever they  *)
(* stand; a missing Date or Description gives the empty string, a missing  *)
(* Amount 0.  'Date,Description,Amount' followed by                        *)
(* '2024-01-05,Coffee,-4.50' gives the one record                          *)
(* {2024-01-05, Coffee, -4.50}.                                            *)
(***************************************************************************)
CsvExample == <<"D","a","t","e",",","D","e","s","c","r","i","p","t","i","o","n",",","A","m","o","u","n","t","\n","2","0","2","4","-","0","1","-","0","5",",","C","o","f","f","e","e",",","-","4",".","5","0">>

\* the cents a cell of the Amount column stands for
CellCents(cell) == IF cell = CellMinus450 THEN -450 ELSE 120000

\* the columns of the header that have a cell in row k
Present(table, k) == {table.header[i] : i \in 1..Len(table.rows[k])}

CellOf(table, k, column) ==
    table.rows[k][CHOOSE i \in 1..Len(table.rows[k]) : table.header[i] = column]

ExpectedRecord(table, k) ==
    [date |-> IF KwDate \in Present(table, k) THEN CellOf(table, k, KwDate) ELSE <<>>,
     description |-> IF KwDescription \in Present(table, k)
                     THEN CellOf(table, k, KwDescription) ELSE <<>>,
     amount |-> IF KwAmount \in Present(table, k)
                THEN CellCents(CellOf(table, k, KwAmount)) ELSE 0]

C15_CsvDecoding ==
    last.op = "parseCSV"
        => /\ Len(last.result) = Len(last.table.rows)
           /\ \A k \in 1..Len(last.result) : last.result[k] = ExpectedRecord(last.table, k)
           /\ last.arg = CsvExample
                 => last.result = <<[date |-> Date0105, description |-> CellCoffee,
                                     amount |-> -450]>>

\* the Amount column comes first, there is no Description column and the
\* second of two rows lacks its last cell
C15_Witness ==
    /\ last.op = "parseCSV"
    /\ last.table.header = <<KwAmount, KwMemo, KwDate>>
    /\ Len(last.table.rows) = 2
    /\ Len(last.table.rows[2]) = 2
    /\ last.result = <<[date |-> Date0210, description |-> <<>>, amount |-> 120000],
                       [date |-> <<>>, description |-> <<>>, amount |-> -450]>>

(***************************************************************************)
(* The forms.  The onChange handlers of a form only store what the user    *)
(* types or selects, so a click is modelled with the contents of the form  *)
(* at that moment as its input.                                            *)
(***************************************************************************)
\* the amount state of the add form: '' or what valueAsNumber gave
EmptyAmount == [isString |-> TRUE, num |-> 0]
NumberAmount(n) == [isString |-> FALSE, num |-> n]

\* !amount
FalsyAmount(amount) == amount.isString \/ amount.num = 0 \/ isNaN(amount.num)

\* Number(amount)
Number(amount) == IF amount.isString THEN 0 ELSE amount.num

\* variant: the account is not among the required fields
RequiredFieldsFilled_AccountOptional(form) ==
    ~(form.date = <<>> \/ form.description = <<>> \/ FalsyAmount(form.amount)
        \/ form.category = "")

\* the negation of !date || !description || !amount || !category || !account
RequiredFieldsFilled(form) ==
    ~(form.date = <<>> \/ form.description = <<>> \/ FalsyAmount(form.amount)
        \/ form.category = "" \/ form.account = "")

MsgFillAll == "Please fill in all fields."
MsgInvalidAmount == "Invalid amount. Please enter a number."
MsgSelectFile == "Please select a file to import."
MsgSelectAccount == "Please select an account to import into."
MsgReadFailed == "Failed to read file."

\* a filled add form
FormCoffee ==
    [date |-> Date0105, description |-> DescCoffee, amount |-> NumberAmount(-450),
     category |-> "Food & Dining", account |-> "credit1"]

\* the filled form, and the same with one field left empty or with an amount
\* input whose content is not a number (valueAsNumber gives NaN)
AddForms ==
    {FormCoffee,
     [FormCoffee EXCEPT !.date = <<>>],
     [FormCoffee EXCEPT !.description = <<>>],
     [FormCoffee EXCEPT !.amount = EmptyAmount],
     [FormCoffee EXCEPT !.amount = NumberAmount(NaN)],
     [FormCoffee EXCEPT !.category = ""],
     [FormCoffee EXCEPT !.account = ""]}

\* handleAdd on the form's contents: what it commits and the form afterwards
handleAdd(txs, accts, uuid, form) ==
    IF ~RequiredFieldsFilled(form)
    THEN [transactions |-> txs, accounts |-> accts, committed |-> FALSE,
          add |-> [cleared |-> FALSE, isSubmitting |-> FALSE, error |-> MsgFillAll]]
    ELSE LET parsedAmount == Number(form.amount) IN
         IF isNaN(parsedAmount)
         THEN [transactions |-> txs, accounts |-> accts, committed |-> FALSE,
               add |-> [cleared |-> FALSE, isSubmitting |-> FALSE,
                        error |-> MsgInvalidAmount]]
         ELSE LET newTransaction ==
                      [date |-> form.date, description |-> form.description,
                       amount |-> parsedAmount, category |-> form.category,
                       account |-> form.account]
                  r == addTransaction(txs, accts, uuid, newTransaction)
              IN [transactions |-> r.transactions, accounts |-> r.accounts,
                  committed |-> TRUE,
                  add |-> [cleared |-> TRUE, isSubmitting |-> FALSE, error |-> Null]]

(***************************************************************************)
(* The files the user can choose.  A file is held by its name; FileReader  *)
(* gives its text and JSON.parse is given by its outcome on each text.     *)
(***************************************************************************)
\* Date,Description,Amount\n2024-01-05,Coffee,-4.50
TextCoffeeCsv ==
    <<"D","a","t","e",",","D","e","s","c","r","i","p","t","i","o","n",",","A","m","o","u","n","t","\n","2","0","2","4","-","0","1","-","0","5",",","C","o","f","f","e","e",",","-","4",".","5","0">>

\* Date,Description,Amount\n2024-01-05,Coffee,abc\n,Rent,-12.00\n2024-02-10,Paycheck,2500.00
TextMixedCsv ==
    <<"D","a","t","e",",","D","e","s","c","r","i","p","t","i","o","n",",","A","m","o","u","n","t","\n","2","0","2","4","-","0","1","-","0","5",",","C","o","f","f","e","e",",","a","b","c","\n",",","R","e","n","t",",","-","1","2",".","0","0","\n","2","0","2","4","-","0","2","-","1","0",",","P","a","y","c","h","e","c","k",",","2","5","0","0",".","0","0">>

\* Date,Description,Amount\n2024-01-05,Coffee,Infinity
TextInfinityCsv ==
    <<"D","a","t","e",",","D","e","s","c","r","i","p","t","i","o","n",",","A","m","o","u","n","t","\n","2","0","2","4","-","0","1","-","0","5",",","C","o","f","f","e","e",",","I","n","f","i","n","i","t","y">>

\* {"Date":
TextBrokenJson ==
    <<"{","\"","D","a","t","e","\"",":">>

\* {"Date":"2024-01-05"}
TextObjectJson ==
    <<"{","\"","D","a","t","e","\"",":","\"","2","0","2","4","-","0","1","-","0","5","\"","}">>

\* [5,{"Date":"2024-01-05","Description":"Coffee","Amount":"-4.50"}]
TextNumberItemJson ==
    <<"[","5",",","{","\"","D","a","t","e","\"",":","\"","2","0","2","4","-","0","1","-","0","5","\"",",","\"","D","e","s","c","r","i","p","t","i","o","n","\"",":","\"","C","o","f","f","e","e","\"",",","\"","A","m","o","u","n","t","\"",":","\"","-","4",".","5","0","\"","}","]">>

\* [null,{"Date":"2024-01-05","Description":"Coffee","Amount":"-4.50"}]
TextNullItemJson ==
    <<"[","n","u","l","l",",","{","\"","D","a","t","e","\"",":","\"","2","0","2","4","-","0","1","-","0","5","\"",",","\"","D","e","s","c","r","i","p","t","i","o","n","\"",":","\"","C","o","f","f","e","e","\"",",","\"","A","m","o","u","n","t","\"",":","\"","-","4",".","5","0","\"","}","]">>

\* [{"Date":"2024-01-05","Description":"Coffee","Amount":"abc"},{"Date":"2024-02-10","Description":"Rent","Amount":-12}]
TextMixedJson ==
    <<"[","{","\"","D","a","t","e","\"",":","\"","2","0","2","4","-","0","1","-","0","5","\"",",","\"","D","e","s","c","r","i","p","t","i","o","n","\"",":","\"","C","o","f","f","e","e","\"",",","\"","A","m","o","u","n","t","\"",":","\"","a","b","c","\"","}",",","{","\"","D","a","t","e","\"",":","\"","2","0","2","4","-","0","2","-","1","0","\"",",","\"","D","e","s","c","r","i","p","t","i","o","n","\"",":","\"","R","e","n","t","\"",",","\"","A","m","o","u","n","t","\"",":","-","1","2","}","]">>

JsString(chars) == [t |-> "string", v |-> chars]
JsNumber(cents) == [t |-> "number", v |-> cents]
JsNull == [t |-> "null", v |-> 0]
JsArray(items) == [t |-> "array", v |-> items]
JsObject(props) == [t |-> "object", v |-> props]

JsonCoffee ==
    JsObject([Date |-> JsString(Date0105), Description |-> JsString(DescCoffee),
              Amount |-> JsString(CellMinus450)])

Files ==
    << [name |-> "coffee.csv", text |-> TextCoffeeCsv, parsed |-> [ok |-> FALSE]],
       [name |-> "mixed.csv", text |-> TextMixedCsv, parsed |-> [ok |-> FALSE]],
       [name |-> "infinity.csv", text |-> TextInfinityCsv, parsed |-> [ok |-> FALSE]],
       [name |-> "broken.json", text |-> TextBrokenJson, parsed |-> [ok |-> FALSE]],
       [name |-> "object.json", text |-> TextObjectJson,
        parsed |-> [ok |-> TRUE, value |-> JsObject([Date |-> JsString(Date0105)])]],
       [name |-> "numberitem.json", text |-> TextNumberItemJson,
        parsed |-> [ok |-> TRUE, value |-> JsArray(<<JsNumber(500), JsonCoffee>>)]],
       [name |-> "nullitem.json", text |-> TextNullItemJson,
        parsed |-> [ok |-> TRUE, value |-> JsArray(<<JsNull, JsonCoffee>>)]],
       [name |-> "mixed.json", text |-> TextMixedJson,
        parsed |-> [ok |-> TRUE, value |->
            JsArray(<<JsObject([Date |-> JsString(Date0105),
                                Description |-> JsString(DescCoffee),
                                Amount |-> JsString(<<"a","b","c">>)]),
                      JsObject([Date |-> JsString(Date0210),
                                Description |-> JsString(DescRent),
                                Amount |-> JsNumber(-1200)])>>)]] >>

\* FileReader.readAsText: e.target.result
readAsText(file) == Files[CHOOSE i \in 1..Len(Files) : Files[i].name = file].text

\* JSON.parse
JSONparse(text) == Files[CHOOSE i \in 1..Len(Files) : Files[i].text = text].parsed

\* the file input and the file type select: every file under the type of its
\* suffix, and the first also as plain text
FileChoices ==
    {[file |-> Files[i].name, fileType |-> IF i <= 3 THEN "csv" ELSE "ynab"] :
        i \in 1..Len(Files)}
        \cup {[file |-> "coffee.csv", fileType |-> "text"]}

\* the import form's account select: nothing selected, or one of the accounts
AccountChoices == {"", "checking1"}

\* the switch on fileType
Decode(fileType, result) ==
    IF fileType = "ynab" THEN parseYNAB(JSONparse(result)) ELSE parseCSV(result)

\* variant: only a missing date disqualifies a record
Validated_DateOnly(parsedTransactions) ==
    SelectSeq(parsedTransactions, LAMBDA transaction : transaction.date # <<>>)

\* parsedTransactions.filter(...): a record without date or with amount NaN is skipped
Validated(parsedTransactions) ==
    SelectSeq(parsedTransactions,
              LAMBDA transaction : transaction.date # <<>> /\ ~isNaN(transaction.amount))

NotReading == [active |-> FALSE, file |-> Null, fileType |-> "csv", selectedAccount |-> ""]

\* variant: the import starts without an account selected
handleImport_AnyAccount(file, fileType, selectedAccount) ==
    IF file = Null
    THEN [imp |-> [isImporting |-> FALSE, error |-> MsgSelectFile],
          reading |-> NotReading]
    ELSE [imp |-> [isImporting |-> TRUE, error |-> Null],
          reading |-> [active |-> TRUE, file |-> file, fileType |-> fileType,
                       selectedAccount |-> selectedAccount]]

\* handleImport up to reader.readAsText: the import form afterwards and the
\* read it has started, with the fileType and selectedAccount its callbacks close over
handleImport(file, fileType, selectedAccount) ==
    IF file = Null
    THEN [imp |-> [isImporting |-> FALSE, error |-> MsgSelectFile],
          reading |-> NotReading]
    ELSE IF selectedAccount = ""
    THEN [imp |-> [isImporting |-> FALSE, error |-> MsgSelectAccount],
          reading |-> NotReading]
    ELSE [imp |-> [isImporting |-> TRUE, error |-> Null],
          reading |-> [active |-> TRUE, file |-> file, fileType |-> fileType,
                       selectedAccount |-> selectedAccount]]

\* reader.onload: the decoders catch what they throw, so the catch block that
\* sets the error is not entered and error keeps the value handleImport gave it
onload(txs, accts, uuid, imp, fileType, result, selectedAccount) ==
    LET parsedTransactions == Decode(fileType, result)
        validatedTransactions == Validated(parsedTransactions)
        r == importTransactions(txs, accts, uuid, validatedTransactions, selectedAccount)
    IN [transactions |-> r.transactions, accounts |-> r.accounts,
        parsed |-> parsedTransactions, validated |-> validatedTransactions,
        imp |-> [imp EXCEPT !.isImporting = FALSE]]

\* reader.onerror
onerror(imp) == [imp EXCEPT !.error = MsgReadFailed, !.isImporting = FALSE]

\* startEditing: the five fields the editor starts from
startEditing(transaction) ==
    [date |-> transaction.date, description |-> transaction.description,
     amount |-> transaction.amount, category |-> transaction.category,
     account |-> transaction.account]

\* what the user changes in the editor before saving: the account select
\* offers the accounts
EditChanges == {[amount |-> 700, account |-> "savings1"]}

(***************************************************************************)
(* The application driven through its forms.  The record of the event      *)
(* handled last is not kept here.                                          *)
(***************************************************************************)
\* the Add button is clicked on a form with these contents
Submit(form) ==
    LET r == handleAdd(transactions, accounts, nextId, form) IN
    /\ r.committed => nextId <= MaxId
    /\ transactions' = r.transactions
    /\ accounts' = r.accounts
    /\ nextId' = IF r.committed THEN nextId + 1 ELSE nextId
    /\ ui' = [ui EXCEPT !.add = r.add]
    /\ PersistEffect
    /\ UNCHANGED last

ClickAdd == \E form \in AddForms : Submit(form)

\* the Import button is disabled while isImporting or without a file
ClickImport ==
    /\ ~ui.imp.isImporting
    /\ \E choice \in FileChoices, selectedAccount \in AccountChoices :
        LET r == handleImport(choice.file, choice.fileType, selectedAccount) IN
        /\ ui' = [ui EXCEPT !.imp = r.imp, !.reading = r.reading]
        /\ UNCHANGED <<transactions, accounts, nextId, last, localStorage, effect>>

ReaderOnload ==
    /\ ui.reading.active
    /\ LET r == onload(transactions, accounts, nextId, ui.imp, ui.reading.fileType,
                       readAsText(ui.reading.file), ui.reading.selectedAccount) IN
        /\ nextId + Len(r.validated) - 1 <= MaxId
        /\ transactions' = r.transactions
        /\ accounts' = r.accounts
        /\ nextId' = nextId + Len(r.validated)
        /\ ui' = [ui EXCEPT !.imp = r.imp, !.reading = NotReading]
        /\ PersistEffect
        /\ UNCHANGED last

ReaderOnerror ==
    /\ ui.reading.active
    /\ ui' = [ui EXCEPT !.imp = onerror(ui.imp), !.reading = NotReading]
    /\ UNCHANGED <<transactions, accounts, nextId, last, localStorage, effect>>

\* a row is clicked, fields are changed in the editor, Save is clicked
SaveChanges ==
    \E i \in 1..Len(transactions), changes \in EditChanges :
        LET id == transactions[i].id
            editedTransaction == Spread(startEditing(transactions[i]), changes)
            r == updateTransaction(transactions, transactions, accounts, id, editedTransaction)
        IN
        /\ transactions' = r.transactions
        /\ accounts' = r.accounts
        /\ ui' = [ui EXCEPT !.edit = [editingId |-> 0, editedTransaction |-> <<>>]]
        /\ PersistEffect
        /\ UNCHANGED <<nextId, last>>

\* the Delete button of a row
ClickDelete ==
    \E i \in 1..Len(transactions) :
        LET id == transactions[i].id
            r == deleteTransaction(transactions, transactions, accounts, id)
        IN
        /\ transactions' = r.transactions
        /\ accounts' = r.accounts
        /\ PersistEffect
        /\ UNCHANGED <<nextId, ui, last>>

NextUI == ClickAdd \/ ClickImport \/ ReaderOnload \/ ReaderOnerror \/ SaveChanges \/ ClickDelete

SpecUI == Init /\ [][NextUI]_vars

(***************************************************************************)
(* C13.  In every state reached from the initial state through the add     *)
(* form, the import form, the row editor and the Delete buttons, the       *)
(* account of every transaction is the id of an existing account.          *)
(***************************************************************************)
C13_ReferentialIntegrity ==
    \A i \in 1..Len(transactions) : transactions[i].account \in KnownAccounts

\* the ledger holds a transaction that was added on one account and moved
\* to another in the editor, and one that was imported
C13_Witness ==
    /\ Len(transactions) = 2
    /\ transactions[1].account = "savings1"
    /\ transactions[1].category = "Food & Dining"
    /\ transactions[2].account = "checking1"

(***************************************************************************)
(* Vocabulary of the properties of the import                              *)
(***************************************************************************)
\* the text the file read at work delivers, and its decoding
ReadResult == readAsText(ui.reading.file)
ReadDecoded == Decode(ui.reading.fileType, ReadResult)

\* the read at work completes in this step
Loads == ReaderOnload

\* what JSON.parse makes of the text is not an array of objects
NotArrayOfObjects(parsed) ==
    \/ ~parsed.ok
    \/ parsed.value.t # "array"
    \/ \E i \in 1..Len(parsed.value.v) : parsed.value.v[i].t # "object"

(***************************************************************************)
(* C16 (fails on the code).  Decoding as a JSON array a text that does not *)
(* parse, is not an array or has an element that is not an object gives    *)
(* the empty sequence of records, and the import that follows leaves the   *)
(* ledger and every balance unchanged.                                     *)
(***************************************************************************)
C16_MalformedJsonEmpty ==
    [][(Loads /\ ui.reading.fileType = "ynab" /\ NotArrayOfObjects(JSONparse(ReadResult)))
          => /\ ReadDecoded = <<>>
             /\ transactions' = transactions
             /\ accounts' = accounts]_vars

\* the Amount field of each record of the text being read, where it is a
\* string; Undefined where the record has none or it is not a string
RawAmounts ==
    IF ui.reading.fileType = "ynab"
    THEN LET parsed == JSONparse(ReadResult) IN
         IF parsed.ok /\ parsed.value.t = "array"
         THEN [k \in 1..Len(parsed.value.v) |->
                 IF Prop(parsed.value.v[k], "Amount").t = "string"
                 THEN Prop(parsed.value.v[k], "Amount").v ELSE Undefined]
         ELSE <<>>
    ELSE LET lines == split(trim(ReadResult), "\n")
             headers == [i \in 1..Len(split(lines[1], ",")) |-> trim(split(lines[1], ",")[i])]
         IN [k \in 1..(Len(lines) - 1) |->
               CsvField(headers,
                        [i \in 1..Len(split(lines[k + 1], ",")) |->
                            trim(split(lines[k + 1], ",")[i])],
                        KwAmount)]

\* a string that is not empty and does not begin, after white space and a
\* sign, with a digit, a point and a digit, or Infinity
NoNumericPrefix(field) ==
    LET s0 == trimStart(field)
        s1 == IF s0 # <<>> /\ Head(s0) \in {"-", "+"} THEN Tail(s0) ELSE s0
    IN /\ field # Undefined
       /\ field # <<>>
       /\ ~(s1 # <<>> /\ IsDigit(s1[1]))
       /\ ~(Len(s1) >= 2 /\ s1[1] = "." /\ IsDigit(s1[2]))
       /\ ~StartsWith(s1, KwInfinity)

\* the decoded records that have a date and an amount other than NaN
Kept == SelectSeq(ReadDecoded, LAMBDA r : r.date # <<>> /\ r.amount # NaN)

IsFinite(x) == x \notin {NaN, PosInfinity, NegInfinity}

(***************************************************************************)
(* C18 (fails on the code).  Validation passes to the ledger exactly the   *)
(* decoded records that have a non-empty date and an amount that parsed to *)
(* a finite number, in their order; the others are excluded and the        *)
(* accepted count is the decoded count less the excluded count.            *)
(***************************************************************************)
C18_ValidationFinite ==
    [][Loads =>
        LET accepted == SelectSeq(ReadDecoded,
                                  LAMBDA r : r.date # <<>> /\ IsFinite(r.amount))
            excluded == SelectSeq(ReadDecoded,
                                  LAMBDA r : ~(r.date # <<>> /\ IsFinite(r.amount)))
        IN /\ Len(transactions') = Len(transactions) + Len(ReadDecoded) - Len(excluded)
           /\ \A k \in 1..Len(accepted) :
                 /\ Len(transactions) + k <= Len(transactions')
                 /\ transactions'[Len(transactions) + k].date = accepted[k].date
                 /\ transactions'[Len(transactions) + k].description = accepted[k].description
                 /\ transactions'[Len(transactions) + k].amount = accepted[k].amount]_vars

(***************************************************************************)
(* C19 (fails on the code).  When the text read for a JSON import does not *)
(* parse or is not an array, the import completes with no record and the   *)
(* import form's error message is set.                                     *)
(***************************************************************************)
C19_MalformedSetsError ==
    [][(Loads /\ ui.reading.fileType = "ynab"
          /\ (~JSONparse(ReadResult).ok \/ JSONparse(ReadResult).value.t # "array"))
          => /\ transactions' = transactions
             /\ ~ui'.imp.isImporting
             /\ ui'.imp.error # Null]_vars

(***************************************************************************)
(* C20.  Submitting the add form with date, description, amount, category  *)
(* or account empty, or with an amount that is not a number, sets an error *)
(* message and commits nothing: the ledger and every balance are unchanged *)
(* and isSubmitting is false afterwards.                                   *)
(***************************************************************************)
\* a field of the form is empty or its amount is not a number
Incomplete(form) ==
    \/ form.date = <<>>
    \/ form.description = <<>>
    \/ form.amount = EmptyAmount
    \/ form.amount.num = NaN
    \/ form.category = ""
    \/ form.account = ""

C20_AddFormValidation ==
    [][\A form \in AddForms :
          (Incomplete(form) /\ Submit(form))
              => /\ ui'.add.error # Null
                 /\ ~ui'.add.isSubmitting
                 /\ transactions' = transactions
                 /\ accounts' = accounts]_vars

\* a form with an empty field was submitted while the ledger held a
\* transaction: the message is shown and the fields keep their contents
C20_Witness ==
    /\ ui.add.error = MsgFillAll
    /\ ~ui.add.cleared
    /\ ~ui.add.isSubmitting
    /\ Len(transactions) = 1

(***************************************************************************)
(* Dashboard.  new Date(t.date) reads a date of the form YYYY-MM-DD as     *)
(* midnight UTC of that day; getMonth and getFullYear give the month and   *)
(* year of that moment in local time, so they depend on the offset of the  *)
(* local time zone from UTC (in minutes, negative to the west).            *)
(***************************************************************************)
\* a > b and a < b on numbers: FALSE when either is NaN
Greater(a, b) == ~isNaN(a) /\ ~isNaN(b) /\ a > b
Less(a, b) == ~isNaN(a) /\ ~isNaN(b) /\ a < b

\* Math.abs
MathAbs(x) ==
    IF isNaN(x) THEN NaN
    ELSE IF x \in {PosInfinity, NegInfinity} THEN PosInfinity
    ELSE IF x < 0 THEN 0 - x ELSE x

\* the string has the form YYYY-MM-DD
IsIsoDate(date) ==
    /\ Len(date) = 10
    /\ date[5] = "-" /\ date[8] = "-"
    /\ \A i \in {1, 2, 3, 4, 6, 7, 9, 10} : IsDigit(date[i])

\* variant: the month and year written in the string, whatever the time zone
LocalMonthYear_AsWritten(date, offset) ==
    IF ~IsIsoDate(date) THEN [month |-> NaN, year |-> NaN]
    ELSE [month |-> DigitsValue(SubSeq(date, 6, 7)) - 1,
          year |-> DigitsValue(SubSeq(date, 1, 4))]

\* getMonth() (0 to 11) and getFullYear() of new Date(date): west of UTC
\* midnight UTC is still the evening of the day before.  A string that is
\* not a date gives Invalid Date, whose month and year are NaN (a date of
\* another form does not occur in the inputs).
LocalMonthYear(date, offset) ==
    IF ~IsIsoDate(date) THEN [month |-> NaN, year |-> NaN]
    ELSE LET y == DigitsValue(SubSeq(date, 1, 4))
             m == DigitsValue(SubSeq(date, 6, 7))
             d == DigitsValue(SubSeq(date, 9, 10))
         IN IF offset >= 0 \/ d > 1 THEN [month |-> m - 1, year |-> y]
            ELSE IF m > 1 THEN [month |-> m - 2, year |-> y]
            ELSE [month |-> 11, year |-> y - 1]

filteredTransactions(txs, selectedMonth, selectedYear, offset) ==
    SelectSeq(txs, LAMBDA t :
        /\ LocalMonthYear(t.date, offset).month = selectedMonth
        /\ LocalMonthYear(t.date, offset).year = selectedYear)

\* reduce((sum, t) => sum + t.amount, 0)
RECURSIVE ReduceSum(_)
ReduceSum(ts) ==
    IF ts = <<>> THEN 0
    ELSE Plus(ReduceSum(SubSeq(ts, 1, Len(ts) - 1)), ts[Len(ts)].amount)

income(filtered) == ReduceSum(SelectSeq(filtered, LAMBDA t : Greater(t.amount, 0)))

expenses(filtered) == ReduceSum(SelectSeq(filtered, LAMBDA t : Less(t.amount, 0)))

netBalance(filtered) == Plus(income(filtered), expenses(filtered))

\* variant: a transaction that is not an expense adds no entry
RECURSIVE categoryTotals_ExpensesOnly(_)
categoryTotals_ExpensesOnly(filtered) ==
    IF filtered = <<>> THEN [c \in {} |-> 0]
    ELSE LET acc == categoryTotals_ExpensesOnly(SubSeq(filtered, 1, Len(filtered) - 1))
             t == filtered[Len(filtered)]
             category == t.category
             before == IF category \in DOMAIN acc /\ acc[category] # 0 /\ ~isNaN(acc[category])
                       THEN acc[category] ELSE 0
         IN IF ~Less(t.amount, 0) THEN acc
            ELSE [c \in DOMAIN acc \cup {category} |->
                    IF c = category THEN Plus(before, MathAbs(t.amount)) ELSE acc[c]]

\* the reduce into an object: acc[category] || 0 is 0 for a missing entry and
\* for an entry that is 0 or NaN
RECURSIVE categoryTotals(_)
categoryTotals(filtered) ==
    IF filtered = <<>> THEN [c \in {} |-> 0]
    ELSE LET acc == categoryTotals(SubSeq(filtered, 1, Len(filtered) - 1))
             t == filtered[Len(filtered)]
             category == t.category
             before == IF category \in DOMAIN acc /\ acc[category] # 0 /\ ~isNaN(acc[category])
                       THEN acc[category] ELSE 0
         IN [c \in DOMAIN acc \cup {category} |->
                IF c = category
                THEN Plus(before, IF Less(t.amount, 0) THEN MathAbs(t.amount) ELSE 0)
                ELSE acc[c]]

(***************************************************************************)
(* The Dashboard as a function of the ledger, the selected month and year  *)
(* and the time zone: they are drawn at the start and one step renders.    *)
(***************************************************************************)
MaxLedger == 3

Date0115 == <<"2","0","2","4","-","0","1","-","1","5">>
Date0120 == <<"2","0","2","4","-","0","1","-","2","0">>
Date0131 == <<"2","0","2","4","-","0","1","-","3","1">>
Date0201 == <<"2","0","2","4","-","0","2","-","0","1">>
Date2023 == <<"2","0","2","3","-","0","1","-","1","0">>

\* a salary, two food expenses, a refund in the food category, an expense on
\* the first of the next month and one in the same month of another year
DashPool ==
    { [date |-> Date0115, description |-> DescPaycheck, amount |-> 100000,
       category |-> "Income", account |-> "checking1"],
      [date |-> Date0120, description |-> DescGrocery, amount |-> -20000,
       category |-> "Food & Dining", account |-> "checking1"],
      [date |-> Date0131, description |-> DescGrocery, amount |-> -5000,
       category |-> "Food & Dining", account |-> "credit1"],
      [date |-> Date0105, description |-> DescGrocery, amount |-> 1500,
       category |-> "Food & Dining", account |-> "credit1"],
      [date |-> Date0201, description |-> DescRent, amount |-> -90000,
       category |-> "Housing", account |-> "checking1"],
      [date |-> Date2023, description |-> DescCoffee, amount |-> -450,
       category |-> "Food & Dining", account |-> "checking1"] }

\* the ledgers of up to MaxLedger transactions of the pool, with ids 1, 2, ...
DashLedgers ==
    UNION {{[i \in 1..n |-> Spread([id |-> i], f[i])] : f \in [1..n -> DashPool]} :
              n \in 0..MaxLedger}

\* the month (0 is January) and year selects
MonthInputs == {0, 1}
YearInputs == {2023, 2024}

\* minutes from UTC: New York in winter, UTC, Paris in winter
OffsetInputs == {-300, 0, 60}

InitDash ==
    /\ transactions \in DashLedgers
    /\ accounts = SeedAccounts
    /\ nextId = Len(transactions) + 1
    /\ ui = InitialUi
    /\ localStorage = [transactions |-> StoredTransactions(transactions),
                       accounts |-> StoredAccounts(accounts)]
    /\ effect = "idle"
    /\ \E m \in MonthInputs, y \in YearInputs, o \in OffsetInputs :
          last = [op |-> "input", selectedMonth |-> m, selectedYear |-> y, offset |-> o,
                  income |-> 0, expenses |-> 0, netBalance |-> 0, categoryTotals |-> <<>>]

Render ==
    /\ last.op = "input"
    /\ LET filtered == filteredTransactions(transactions, last.selectedMonth,
                                            last.selectedYear, last.offset)
       IN last' = [last EXCEPT !.op = "Dashboard",
                               !.income = income(filtered),
                               !.expenses = expenses(filtered),
                               !.netBalance = netBalance(filtered),
                               !.categoryTotals = categoryTotals(filtered)]
    /\ UNCHANGED <<transactions, accounts, nextId, ui, localStorage, effect>>

NextDash == Render

SpecDash == InitDash /\ [][NextDash]_vars

(***************************************************************************)
(* Vocabulary of the properties of the Dashboard                           *)
(***************************************************************************)
\* the transactions of the ledger whose date, as written, lies in the
\* selected month of the selected year
Scope ==
    SelectSeq(transactions, LAMBDA t :
        /\ DigitsValue(SubSeq(t.date, 6, 7)) = last.selectedMonth + 1
        /\ DigitsValue(SubSeq(t.date, 1, 4)) = last.selectedYear)

\* the sum of the amounts of ts
RECURSIVE Total(_)
Total(ts) == IF ts = <<>> THEN 0 ELSE Head(ts).amount + Total(Tail(ts))

ScopeIncome == SelectSeq(Scope, LAMBDA t : t.amount > 0)
ScopeExpenses == SelectSeq(Scope, LAMBDA t : t.amount < 0)

\* the ledger is a salary of 1000 and expenses of 200 and 50, all in scope
IsExample ==
    /\ Len(Scope) = 3
    /\ Len(transactions) = 3
    /\ {transactions[i].amount : i \in 1..3} = {100000, -20000, -5000}

(***************************************************************************)
(* C21 (fails on the code).  For every ledger and selected month and year, *)
(* income is the sum of the positive amounts dated in that month,          *)
(* expenses the sum of the negative ones and netBalance their sum;         *)
(* transactions of other months contribute nothing.  +1000, -200 and -50   *)
(* give 1000, -250 and 750; no transaction in the month gives 0, 0 and 0.  *)
(***************************************************************************)
C21_MonthlyTotals ==
    last.op = "Dashboard"
        => /\ last.income = Total(ScopeIncome)
           /\ last.expenses = Total(ScopeExpenses)
           /\ last.netBalance = last.income + last.expenses
           /\ IsExample => /\ last.income = 100000
                           /\ last.expenses = -25000
                           /\ last.netBalance = 75000
           /\ Scope = <<>> => /\ last.income = 0
                              /\ last.expenses = 0
                              /\ last.netBalance = 0

\* the categories that have an expense in scope
ExpenseCategories == {ScopeExpenses[i].category : i \in 1..Len(ScopeExpenses)}

\* the sum of |amount| over the expenses in scope of category c
Spent(c) == 0 - Total(SelectSeq(ScopeExpenses, LAMBDA t : t.category = c))

(***************************************************************************)
(* C22 (fails on the code).  categoryTotals maps each category to the sum  *)
(* of |amount| over the expenses of that category dated in the selected    *)
(* month; income adds nothing, so a category with only income in the month *)
(* has no entry: +1000 Income, -200 Food, -50 Food give exactly            *)
(* {Food: 250}, and no transaction in the month gives the empty map.       *)
(***************************************************************************)
C22_CategoryTotals ==
    last.op = "Dashboard"
        => /\ DOMAIN last.categoryTotals = ExpenseCategories
           /\ \A c \in ExpenseCategories : last.categoryTotals[c] = Spent(c)
           /\ IsExample
                => /\ DOMAIN last.categoryTotals = {"Food & Dining"}
                   /\ last.categoryTotals["Food & Dining"] = 25000
           /\ Scope = <<>> => DOMAIN last.categoryTotals = {}

(***************************************************************************)
(* Persistence step by step.  A handler changes the state and the render   *)
(* that follows schedules the effect; the effect writes the key            *)
(* transactions, then the key accounts; the process can end at any point,  *)
(* and when the application is opened again its state is read from         *)
(* localStorage.  last records the operation and, in pre, what the state   *)
(* before the most recent change would be persisted as.                    *)
(***************************************************************************)
Snapshot(txs, accts) ==
    [transactions |-> StoredTransactions(txs), accounts |-> StoredAccounts(accts)]

InitPersist ==
    /\ transactions = <<>>
    /\ accounts = SeedAccounts
    /\ nextId = 1
    /\ ui = InitialUi
    /\ localStorage = Snapshot(transactions, accounts)
    /\ effect = "idle"
    /\ last = [op |-> "init", pre |-> Snapshot(transactions, accounts)]

AddThenRender ==
    /\ effect = "idle"
    /\ nextId <= MaxId
    /\ \E t \in AddInputs :
        LET r == addTransaction(transactions, accounts, nextId, t) IN
        /\ transactions' = r.transactions
        /\ accounts' = r.accounts
    /\ nextId' = nextId + 1
    /\ effect' = "scheduled"
    /\ last' = [op |-> "add", pre |-> Snapshot(transactions, accounts)]
    /\ UNCHANGED <<ui, localStorage>>

DeleteThenRender ==
    /\ effect = "idle"
    /\ \E i \in 1..Len(transactions) :
        LET r == deleteTransaction(transactions, transactions, accounts, transactions[i].id) IN
        /\ transactions' = r.transactions
        /\ accounts' = r.accounts
    /\ effect' = "scheduled"
    /\ last' = [op |-> "delete", pre |-> Snapshot(transactions, accounts)]
    /\ UNCHANGED <<nextId, ui, localStorage>>

\* localStorage.setItem('transactions', JSON.stringify(transactions))
SetItemTransactions ==
    /\ effect = "scheduled"
    /\ localStorage' = [localStorage EXCEPT !.transactions = StoredTransactions(transactions)]
    /\ effect' = "wroteTransactions"
    /\ UNCHANGED <<transactions, accounts, nextId, ui, last>>

\* localStorage.setItem('accounts', JSON.stringify(accounts))
SetItemAccounts ==
    /\ effect = "wroteTransactions"
    /\ localStorage' = [localStorage EXCEPT !.accounts = StoredAccounts(accounts)]
    /\ effect' = "idle"
    /\ UNCHANGED <<transactions, accounts, nextId, ui, last>>

\* the process ends and the application is opened again: the initialisers
\* read both keys and the effect runs after the first render
CrashAndReopen ==
    /\ transactions' = localStorage.transactions
    /\ accounts' = localStorage.accounts
    /\ effect' = "scheduled"
    /\ last' = [op |-> "reopen", pre |-> localStorage]
    /\ ui' = InitialUi
    /\ UNCHANGED <<nextId, localStorage>>

NextPersist ==
    AddThenRender \/ DeleteThenRender \/ SetItemTransactions \/ SetItemAccounts
        \/ CrashAndReopen

SpecPersist == InitPersist /\ [][NextPersist]_vars

(***************************************************************************)
(* C23 (fails on the code).  At every point at which the process can end,  *)
(* the persisted pair of transactions and accounts is the pair of one      *)
(* moment of the state in memory, the one before or the one after the most *)
(* recent change; it is never the transactions of one with the accounts of *)
(* the other.                                                              *)
(***************************************************************************)
C23_WholeSnapshot ==
    localStorage \in {last.pre, Snapshot(transactions, accounts)}

\* the sum of the amounts of a batch, as numbers add
RECURSIVE NumberSum(_)
NumberSum(b) ==
    IF b = <<>> THEN 0 ELSE Plus(NumberSum(SubSeq(b, 1, Len(b) - 1)), b[Len(b)].amount)

(***************************************************************************)
(* C24.  Whatever was added, edited or deleted between the click on Import *)
(* and the completion of the file read, the completion is one step: after  *)
(* it the whole validated batch stands in the ledger behind all entries    *)
(* present at that moment, the balance of the selected account is its      *)
(* balance at that moment plus the sum of the batch and no other balance   *)
(* has changed, so no later action sees the batch without its credit.      *)
(***************************************************************************)
C24_ImportOneStep ==
    [][Loads =>
        /\ Len(transactions') = Len(transactions) + Len(Kept)
        /\ SubSeq(transactions', 1, Len(transactions)) = transactions
        /\ \A k \in 1..Len(Kept) :
              /\ transactions'[Len(transactions) + k].date = Kept[k].date
              /\ transactions'[Len(transactions) + k].description = Kept[k].description
              /\ transactions'[Len(transactions) + k].amount = Kept[k].amount
              /\ transactions'[Len(transactions) + k].account = ui.reading.selectedAccount
        /\ Len(accounts') = Len(accounts)
        /\ \A i \in 1..Len(accounts) :
              /\ accounts'[i].id = accounts[i].id
              /\ accounts'[i].balance =
                    IF accounts[i].id = ui.reading.selectedAccount
                    THEN Plus(accounts[i].balance, NumberSum(Kept))
                    ELSE accounts[i].balance]_vars

\* a transaction added through the form on credit1 stands before the record
\* imported from mixed.csv into checking1, and both balances carry their amounts
C24_Witness ==
    /\ ~ui.reading.active
    /\ Len(transactions) = 2
    /\ transactions[1].account = "credit1"
    /\ transactions[1].amount = -450
    /\ transactions[2].account = "checking1"
    /\ transactions[2].amount = 250000
    /\ accounts[1].balance = SeedAccounts[1].balance + 250000
    /\ accounts[3].balance = SeedAccounts[3].balance - 450

(***************************************************************************)
(* The rows of the transaction table.  A row is a motion.tr inside         *)
(* AnimatePresence: when its transaction leaves the ledger the row stays   *)
(* mounted for the 0.2 s of its exit animation, with the Delete button and *)
(* the onDeleteTransaction it was last rendered with, which is the         *)
(* deleteTransaction that captured the ledger of that render.              *)
(* last.exiting holds the rows in their exit animation, each with the     *)
(* number of clicks its button has taken since.                            *)
(***************************************************************************)
\* clicks that fit in the exit animation of a row
MaxClicks == 2

InitRows ==
    /\ transactions = <<>>
    /\ accounts = SeedAccounts
    /\ nextId = 1
    /\ ui = InitialUi
    /\ localStorage = [transactions |-> StoredTransactions(transactions),
                       accounts |-> StoredAccounts(accounts)]
    /\ effect = "idle"
    /\ last = [op |-> "init", id |-> 0, preAcc |-> accounts, exiting |-> {}]

AddRow ==
    /\ nextId <= MaxId
    /\ \E t \in AddInputs :
        LET r == addTransaction(transactions, accounts, nextId, t) IN
        /\ transactions' = r.transactions
        /\ accounts' = r.accounts
        /\ last' = [op |-> "add", id |-> nextId, preAcc |-> accounts,
                    exiting |-> last.exiting]
    /\ nextId' = nextId + 1
    /\ ui' = ui
    /\ PersistEffect

\* a click on the Delete button of a row of the ledger
ClickDeleteRow ==
    \E i \in 1..Len(transactions) :
        LET id == transactions[i].id
            r == deleteTransaction(transactions, transactions, accounts, id)
        IN
        /\ transactions' = r.transactions
        /\ accounts' = r.accounts
        /\ last' = [op |-> "delete", id |-> id, preAcc |-> accounts,
                    exiting |-> last.exiting \cup
                                {[id |-> id, captured |-> transactions, clicks |-> 0]}]
        /\ UNCHANGED <<nextId, ui>>
        /\ PersistEffect

\* a second click on the Delete button of a row that is still fading out
ClickDeleteExitingRow ==
    \E row \in last.exiting :
        LET r == deleteTransaction(row.captured, transactions, accounts, row.id) IN
        /\ row.clicks < MaxClicks
        /\ transactions' = r.transactions
        /\ accounts' = r.accounts
        /\ last' = [op |-> "deleteAgain", id |-> row.id, preAcc |-> accounts,
                    exiting |-> (last.exiting \ {row}) \cup
                                {[row EXCEPT !.clicks = @ + 1]}]
        /\ UNCHANGED <<nextId, ui>>
        /\ PersistEffect

\* the exit animation of a row ends and the row is unmounted
ExitComplete ==
    \E row \in last.exiting :
        /\ last' = [op |-> "exit", id |-> row.id, preAcc |-> accounts,
                    exiting |-> last.exiting \ {row}]
        /\ UNCHANGED <<transactions, accounts, nextId, ui, localStorage, effect>>

NextRows == AddRow \/ ClickDeleteRow \/ ClickDeleteExitingRow \/ ExitComplete

SpecRows == InitRows /\ [][NextRows]_vars

(***************************************************************************)
(* C25.  A second invocation of the delete handler for the same id, made   *)
(* from the same captured ledger as the first, leaves every account        *)
(* balance as it was: the amount is taken from the account once.           *)
(***************************************************************************)
C25_DebitedOnce ==
    last.op = "deleteAgain" => accounts = last.preAcc

(***************************************************************************)
(* The row editor with its amount input.  The input is of type number and  *)
(* its onChange stores e.target.valueAsNumber, which is NaN when the input *)
(* holds no number, as it does once the user has cleared it.               *)
(***************************************************************************)
ClearedInput == [empty |-> TRUE, num |-> 0]
NumberInput(n) == [empty |-> FALSE, num |-> n]

valueAsNumber(input) == IF input.empty THEN NaN ELSE input.num

\* what the user leaves in the amount input of the editor before saving
AmountContents == {ClearedInput, NumberInput(700)}

\* the amount input is changed and Save is clicked on the row
SaveEdited ==
    \E i \in 1..Len(transactions), input \in AmountContents :
        LET id == transactions[i].id
            editedTransaction == Spread(startEditing(transactions[i]),
                                        [amount |-> valueAsNumber(input)])
            r == updateTransaction(transactions, transactions, accounts, id, editedTransaction)
        IN
        /\ transactions' = r.transactions
        /\ accounts' = r.accounts
        /\ ui' = [ui EXCEPT !.edit = [editingId |-> 0, editedTransaction |-> <<>>]]
        /\ PersistEffect
        /\ UNCHANGED <<nextId, last>>

NextEdit == ClickAdd \/ ClickImport \/ ReaderOnload \/ ReaderOnerror \/ SaveEdited \/ ClickDelete

SpecEdit == Init /\ [][NextEdit]_vars

(***************************************************************************)
(* C26.  In every state reached through the add form, the import, the row  *)
(* editor and the Delete buttons, the amount of every transaction of the   *)
(* ledger is a number other than NaN and so is every account balance;      *)
(* saving an edit whose amount input was cleared stores no NaN.            *)
(***************************************************************************)
C26_NumericLedger ==
    /\ \A i \in 1..Len(transactions) : ~isNaN(transactions[i].amount)
    /\ \A i \in 1..Len(accounts) : ~isNaN(accounts[i].balance)

====
